---- MODULE Spec2Model ----
(***************************************************************************)
(* Model of commsec_cgt_calculator.py: calculate() and the functions it    *)
(* calls, from the sorted ledger to the exported report.                   *)
(*                                                                         *)
(* Dates are integers yyyymmdd, so that integer order is date order.       *)
(* Money is an integer number of cents and the arithmetic on it is exact;  *)
(* the binary floats of the source, which can raise a recorded gain by one *)
(* cent, are not modelled.  The grand total, which the 12-month rule       *)
(* halves, is kept in half cents.  Python indices are kept                 *)
(* 0-based as in the source (transactions[i] is At(transactions, i)).      *)
(* A dict is a sequence of [name, transactions] entries in insertion       *)
(* order.  Every transaction carries an id that stands for the identity of *)
(* its Python dict object, which data and filtered_data share.             *)
(***************************************************************************)
EXTENDS Integers, Sequences, FiniteSets, TLC

VARIABLES
    pc,                                 \* position inside calculate()
    minimize_capital_gains,             \* strategy_var.get() == "Minimize CGT"
    apply_twelve_month_rule,            \* rule_var.get()
    data,                               \* the dict process_csv returned
    start_date, end_date,               \* the resolved window, NoDate for None
    filtered_data,                      \* the dict filter_for_latest_tax_year returned
    stock_pos,                          \* position of the for loop over filtered_data.items()
    i, j,                               \* loop indices of calculate_capital_gains
    sell_transaction,                   \* the sell being matched
    remaining_to_sell,
    gains_by_stock_twelve_month_split,
    transaction_records,                \* the entries of transaction_records_str
    total_capital_gain,                 \* in half cents
    current_holdings,
    report,                             \* the files print_results wrote
    messages                            \* the messagebox.showinfo calls, in order

vars == <<pc, minimize_capital_gains, apply_twelve_month_rule, data, start_date,
          end_date, filtered_data, stock_pos, i, j, sell_transaction,
          remaining_to_sell, gains_by_stock_twelve_month_split,
          transaction_records, total_capital_gain, current_holdings, report,
          messages>>

----------------------------------------------------------------------------
(* Bounds of the model *)

MaxTx == 3          \* transactions of the enumerated stock

(* None, for start_date and end_date *)
NoDate == 0

Dates == {20230701, 20240630, 20240701}
Lots == {<<1, 10>>, <<2, 25>>, <<2, 10>>}      \* quantity and total value (cents)
Types == {"buy", "sell"}

----------------------------------------------------------------------------
(* Dates *)

Year(d) == d \div 10000
Month(d) == (d \div 100) % 100
MonthDay(d) == d % 10000
MakeDate(y, m, d) == y * 10000 + m * 100 + d

\* relativedelta(d1, d2).years for d1 >= d2 (neither a 29 February)
RelativeDeltaYears(d1, d2) ==
    IF d1 >= d2
    THEN Year(d1) - Year(d2) - (IF MonthDay(d1) < MonthDay(d2) THEN 1 ELSE 0)
    ELSE 0 - (Year(d2) - Year(d1) - (IF MonthDay(d2) < MonthDay(d1) THEN 1 ELSE 0))

----------------------------------------------------------------------------
(* Sequences and dicts *)

At(seq, k) == seq[k + 1]                       \* seq[k], 0-based
Pop(seq, k) == SubSeq(seq, 1, k) \o SubSeq(seq, k + 2, Len(seq))   \* seq.pop(k)
Slice(seq, a, b) == SubSeq(seq, a + 1, b)      \* seq[a:b]

EmptyDict == [s \in {} |-> 0]

Names(dict) == {dict[k].name : k \in 1..Len(dict)}
Lookup(dict, name) ==
    (CHOOSE k \in 1..Len(dict) : dict[k].name = name)
TransactionsOf(dict, name) == dict[Lookup(dict, name)].transactions

----------------------------------------------------------------------------
(* sort_dict_ascending_by_date: list.sort is stable *)

RECURSIVE InsertByDate(_, _)
InsertByDate(x, seq) ==
    IF seq = <<>> THEN <<x>>
    ELSE IF x.date < Head(seq).date THEN <<x>> \o seq
    ELSE <<Head(seq)>> \o InsertByDate(x, Tail(seq))

RECURSIVE SortByDate(_)
SortByDate(seq) ==
    IF seq = <<>> THEN <<>>
    ELSE InsertByDate(seq[Len(seq)], SortByDate(SubSeq(seq, 1, Len(seq) - 1)))

sort_dict_ascending_by_date(dict) ==
    [k \in 1..Len(dict) |->
        [dict[k] EXCEPT !.transactions = SortByDate(dict[k].transactions)]]

----------------------------------------------------------------------------
(* calculate_latest_tax_year *)

\* index of the first sell found scanning from the end, -1 when there is none
RECURSIVE LastSellIndex(_, _)
LastSellIndex(transactions, k) ==
    IF k < 0 THEN 0 - 1
    ELSE IF At(transactions, k).type = "sell" THEN k
    ELSE LastSellIndex(transactions, k - 1)

\* latest_date after the loop over the first n entries of the dict
RECURSIVE LatestDate(_, _)
LatestDate(dict, n) ==
    IF n = 0 THEN NoDate
    ELSE LET latest == LatestDate(dict, n - 1)
             transactions == dict[n].transactions
             k == LastSellIndex(transactions, Len(transactions) - 1)
         IN  IF k < 0 THEN latest
             ELSE LET d == At(transactions, k).date
                  IN  IF latest = NoDate \/ d > latest THEN d ELSE latest

\* (mutant: July itself counts as before July)
calculate_latest_tax_year_after_july(dict) ==
    LET latest_date == LatestDate(dict, Len(dict))
    IN  IF latest_date = NoDate THEN <<NoDate, NoDate>>
        ELSE IF Month(latest_date) > 7
        THEN <<MakeDate(Year(latest_date), 7, 1), MakeDate(Year(latest_date) + 1, 6, 30)>>
        ELSE <<MakeDate(Year(latest_date) - 1, 7, 1), MakeDate(Year(latest_date), 6, 30)>>
calculate_latest_tax_year(dict) ==
    LET latest_date == LatestDate(dict, Len(dict))
    IN  IF latest_date = NoDate THEN <<NoDate, NoDate>>
        ELSE IF Month(latest_date) >= 7
        THEN <<MakeDate(Year(latest_date), 7, 1), MakeDate(Year(latest_date) + 1, 6, 30)>>
        ELSE <<MakeDate(Year(latest_date) - 1, 7, 1), MakeDate(Year(latest_date), 6, 30)>>

----------------------------------------------------------------------------
(* filter_for_latest_tax_year *)

\* (mutant: only the end of the window is compared)
RelevantUpToEnd(transactions, start, end) ==
    LET k == LastSellIndex(transactions, Len(transactions) - 1)
    IN  /\ k >= 0
        /\ At(transactions, k).date <= end
\* (mutant: a sell on start_date itself is outside the window)
RelevantAfterStart(transactions, start, end) ==
    LET k == LastSellIndex(transactions, Len(transactions) - 1)
    IN  /\ k >= 0
        /\ start < At(transactions, k).date
        /\ At(transactions, k).date <= end
Relevant(transactions, start, end) ==
    LET k == LastSellIndex(transactions, Len(transactions) - 1)
    IN  /\ k >= 0
        /\ start <= At(transactions, k).date
        /\ At(transactions, k).date <= end

RECURSIVE filter_for_latest_tax_year(_, _, _)
filter_for_latest_tax_year(dict, start, end) ==
    IF dict = <<>> THEN <<>>
    ELSE (IF Relevant(Head(dict).transactions, start, end)
          THEN <<Head(dict)>> ELSE <<>>)
         \o filter_for_latest_tax_year(Tail(dict), start, end)

----------------------------------------------------------------------------
(* calculate_capital_gains: the re-sort of transactions[0:i] before a sell *)

\* the numerator of raw = sell unit price - t unit price over sell.quantity * t.quantity
RawGain(t, sell) == sell.total_value * t.quantity - t.total_value * sell.quantity

\* 2 when the key of t is raw / 2, else 1 (mutant: the key is never halved)
KeyDivisorOne(t, sell) == 1
KeyDivisor(t, sell) ==
    IF RelativeDeltaYears(sell.date, t.date) >= 1 /\ RawGain(t, sell) > 0 THEN 2 ELSE 1

\* a sorts strictly before b: its key is smaller (12-month rule, ascending),
\* or its price per unit is higher (no rule, reverse=True)
SortsBefore(a, b, sell, rule) ==
    IF rule
    THEN RawGain(a, sell) * b.quantity * KeyDivisor(b, sell)
            < RawGain(b, sell) * a.quantity * KeyDivisor(a, sell)
    ELSE a.total_value * b.quantity > b.total_value * a.quantity

RECURSIVE InsertByKey(_, _, _, _)
InsertByKey(x, seq, sell, rule) ==
    IF seq = <<>> THEN <<x>>
    ELSE IF SortsBefore(x, Head(seq), sell, rule) THEN <<x>> \o seq
    ELSE <<Head(seq)>> \o InsertByKey(x, Tail(seq), sell, rule)

\* sorted(seq, key=...), stable
RECURSIVE SortedByKey(_, _, _)
SortedByKey(seq, sell, rule) ==
    IF seq = <<>> THEN <<>>
    ELSE InsertByKey(seq[Len(seq)], SortedByKey(SubSeq(seq, 1, Len(seq) - 1), sell, rule),
                     sell, rule)

\* (mutant: without minimize-gain the latest buy comes first)
ReorderLatestFirst(transactions, idx, sell, rule, minimize) ==
    IF minimize
    THEN SortedByKey(Slice(transactions, 0, idx), sell, rule)
            \o SubSeq(transactions, idx + 1, Len(transactions))
    ELSE [k \in 1..idx |-> transactions[idx + 1 - k]]
            \o SubSeq(transactions, idx + 1, Len(transactions))
\* the list after lines 198-205 (mutant: the slice takes in the sell itself)
ReorderWithSell(transactions, idx, sell, rule, minimize) ==
    IF minimize
    THEN SortedByKey(Slice(transactions, 0, idx + 1), sell, rule)
            \o SubSeq(transactions, idx + 2, Len(transactions))
    ELSE transactions
Reorder(transactions, idx, sell, rule, minimize) ==
    IF minimize
    THEN SortedByKey(Slice(transactions, 0, idx), sell, rule)
            \o SubSeq(transactions, idx + 1, Len(transactions))
    ELSE transactions

----------------------------------------------------------------------------
(* calculate_capital_gains: the amounts of one match, in cents *)

\* math.floor(shares * 100 * total_value / quantity) / 100.0
PartialPurchasePrice(shares, buy) == (shares * buy.total_value) \div buy.quantity

\* math.ceil(shares * 100 * total_value / quantity) / 100.0
\* (mutant: rounded down as the purchase price is)
PartialSellPriceFloor(shares, sell) == (shares * sell.total_value) \div sell.quantity
PartialSellPrice(shares, sell) ==
    (shares * sell.total_value + sell.quantity - 1) \div sell.quantity

\* math.ceil((partial_sell_price - partial_purchase_price) * 100) / 100.0
CapitalGain(partial_sell_price, partial_purchase_price) ==
    partial_sell_price - partial_purchase_price

TwelveMonthsOrMore(sell, buy) == RelativeDeltaYears(sell.date, buy.date) >= 1

\* lines 224 and 259: the match is written down and added to the totals
\* (mutant: a sell on start_date itself is left out)
RecordedAfterStart(sell, start) == sell.date > start
Recorded(sell, start) == sell.date >= start

MatchEntry(stock_name, shares, buy, sell, approx) ==
    LET partial_purchase_price == PartialPurchasePrice(shares, buy)
        partial_sell_price == PartialSellPrice(shares, sell)
    IN  [kind |-> "matched", stock |-> stock_name, shares |-> shares,
         buy |-> buy, sell |-> sell,
         partial_purchase_price |-> partial_purchase_price,
         partial_sell_price |-> partial_sell_price,
         capital_gain |-> CapitalGain(partial_sell_price, partial_purchase_price),
         twelve_months_or_more |-> TwelveMonthsOrMore(sell, buy),
         approx |-> approx]

SoldEntry(stock_name, shares, sell) ==
    [kind |-> "sold", stock |-> stock_name, shares |-> shares, sell |-> sell]

----------------------------------------------------------------------------
(* calculate_capital_gains: one iteration of the inner while loop          *)
(* (lines 211-294) on the list of one stock.  The result holds the new     *)
(* list, indices and remaining_to_sell, the entries it appends to          *)
(* transaction_records_str, and the remaining_shares it writes to a buy.   *)

\* line 217 (mutant: the original size of the lot instead of what is left of it)
ShareDiffOfQuantity(buy, remaining) == buy.quantity - remaining
ShareDiff(buy, remaining) == buy.remaining_shares - remaining

\* line 221 (mutant: the sign is kept)
AbsKeepsSign(x) == x
Abs(x) == IF x < 0 THEN 0 - x ELSE x

\* lines 288-294: the buy is shrunk, the sell removed, and the buy too when
\* nothing is left of it (mutant: remaining_shares is not written)
CoverSellNoWrite(transactions, idx, jdx, share_diff) ==
    LET sold == Pop(transactions, idx)
    IN  IF share_diff = 0 THEN Pop(sold, jdx) ELSE sold
CoverSell(transactions, idx, jdx, share_diff) ==
    LET shrunk == [transactions EXCEPT ![jdx + 1].remaining_shares = share_diff]
        sold == Pop(shrunk, idx)
    IN  IF share_diff = 0 THEN Pop(sold, jdx) ELSE sold

MatchIteration(transactions, idx, jdx, remaining, sell, start, stock_name) ==
    LET cand == At(transactions, jdx)
        share_diff == ShareDiff(cand, remaining)
    IN  IF cand.type # "buy" \/ cand.remaining_shares <= 0
        THEN [transactions |-> transactions, i |-> idx, j |-> jdx + 1,
              remaining_to_sell |-> remaining, written |-> <<>>, entries |-> <<>>]
        ELSE IF share_diff < 0
        THEN \* the sell consumes more than this buy
             [transactions |-> Pop(transactions, jdx), i |-> idx - 1, j |-> jdx,
              remaining_to_sell |-> Abs(share_diff),
              written |-> <<>>,
              entries |->
                IF Recorded(sell, start)
                THEN <<MatchEntry(stock_name, cand.remaining_shares, cand, sell,
                                  cand.remaining_shares # cand.quantity)>>
                ELSE <<>>]
        ELSE \* the buy covers the entire remaining sell quantity
             [transactions |-> CoverSell(transactions, idx, jdx, share_diff),
              i |-> IF share_diff = 0 THEN idx - 1 ELSE idx,
              j |-> jdx,
              remaining_to_sell |-> 0,
              written |-> <<[id |-> cand.id, remaining_shares |-> share_diff]>>,
              entries |->
                IF Recorded(sell, start)
                THEN <<MatchEntry(stock_name, remaining, cand, sell,
                                  cand.remaining_shares # cand.quantity
                                    \/ cand.remaining_shares # remaining)>>
                ELSE <<>>]

\* the totals of a stock after the entries of one iteration were added
AddGains(split, entries) ==
    IF entries = <<>> THEN split
    ELSE IF entries[1].twelve_months_or_more
    THEN [split EXCEPT !.twelve_months = @ + entries[1].capital_gain]
    ELSE [split EXCEPT !.under_twelve_months = @ + entries[1].capital_gain]

\* lines 210-294: the entries the inner while loop writes for one sell, from
\* j = jdx to its end
RECURSIVE MatchLoop(_, _, _, _, _, _, _)
MatchLoop(transactions, idx, jdx, remaining, sell, start, stock_name) ==
    IF jdx < idx /\ remaining > 0
    THEN LET r == MatchIteration(transactions, idx, jdx, remaining, sell, start,
                                 stock_name)
         IN  r.entries \o MatchLoop(r.transactions, r.i, r.j, r.remaining_to_sell,
                                    sell, start, stock_name)
    ELSE <<>>

\* lines 210-294: the list, i, remaining_to_sell and the gains added when the
\* inner while loop of one sell ends, from j = jdx with gain added so far
RECURSIVE MatchLoopEnd(_, _, _, _, _, _, _, _)
MatchLoopEnd(transactions, idx, jdx, remaining, sell, start, stock_name, gain) ==
    IF jdx < idx /\ remaining > 0
    THEN LET r == MatchIteration(transactions, idx, jdx, remaining, sell, start,
                                 stock_name)
         IN  MatchLoopEnd(r.transactions, r.i, r.j, r.remaining_to_sell, sell, start,
                          stock_name,
                          gain + (IF r.entries = <<>> THEN 0
                                  ELSE r.entries[1].capital_gain))
    ELSE [transactions |-> transactions, i |-> idx, remaining_to_sell |-> remaining,
          gain |-> gain]

\* lines 188-298: the gains added for one stock by the outer while loop from
\* i = idx on (twelve_months and under_twelve_months together)
RECURSIVE GainOfList(_, _, _, _, _, _)
GainOfList(transactions, idx, start, rule, minimize, stock_name) ==
    IF idx >= Len(transactions) THEN 0
    ELSE IF At(transactions, idx).type # "sell"
    THEN GainOfList(transactions, idx + 1, start, rule, minimize, stock_name)
    ELSE LET sell == At(transactions, idx)
             r == MatchLoopEnd(Reorder(transactions, idx, sell, rule, minimize),
                               idx, 0, sell.remaining_shares, sell, start,
                               stock_name, 0)
         IN  IF r.remaining_to_sell > 0 THEN 0
             ELSE r.gain + GainOfList(r.transactions, r.i, start, rule, minimize,
                                      stock_name)

\* transactions[j]["remaining_shares"] = share_diff writes the dict object
\* that the list in data holds too
SharedWrite(transactions, written) ==
    [k \in 1..Len(transactions) |->
        IF written # <<>> /\ transactions[k].id = written[1].id
        THEN [transactions[k] EXCEPT !.remaining_shares = written[1].remaining_shares]
        ELSE transactions[k]]

----------------------------------------------------------------------------
(* calculate_total_capital_gains, shares_you_still_own *)

RECURSIVE SumOver(_, _, _)
SumOver(split, names, field) ==
    IF names = {} THEN 0
    ELSE LET n == CHOOSE x \in names : TRUE
         IN  split[n][field] + SumOver(split, names \ {n}, field)

\* (mutant: the 12-month total is not halved)
calculate_total_capital_gains_no_discount(split, rule) ==
    2 * SumOver(split, DOMAIN split, "twelve_months")
        + 2 * SumOver(split, DOMAIN split, "under_twelve_months")
\* the grand total in half cents
calculate_total_capital_gains(split, rule) ==
    LET more_than_twelve_month_total == 2 * SumOver(split, DOMAIN split, "twelve_months")
        less_than_twelve_month_total == 2 * SumOver(split, DOMAIN split, "under_twelve_months")
    IN  (IF rule THEN more_than_twelve_month_total \div 2 ELSE more_than_twelve_month_total)
            + less_than_twelve_month_total

combined_gains_per_stock(split) ==
    [n \in DOMAIN split |-> split[n].twelve_months + split[n].under_twelve_months]

RECURSIVE RemainingOfBuys(_)
RemainingOfBuys(transactions) ==
    IF transactions = <<>> THEN 0
    ELSE (IF Head(transactions).type = "buy" THEN Head(transactions).remaining_shares ELSE 0)
         + RemainingOfBuys(Tail(transactions))

shares_you_still_own(dict) ==
    [n \in Names(dict) |-> RemainingOfBuys(TransactionsOf(dict, n))]

----------------------------------------------------------------------------
(* The ledgers process_csv hands to calculate() *)

\* a row as process_csv appends it: remaining_shares = quantity
Transaction(date, type, quantity, total_value, id) ==
    [date |-> date, type |-> type, quantity |-> quantity, total_value |-> total_value,
     remaining_shares |-> quantity, id |-> id]

Rows ==
    {[date |-> d, type |-> t, quantity |-> l[1], total_value |-> l[2]] :
        d \in Dates, t \in Types, l \in Lots}

IsSortedByDate(seq) == \A k \in 1..(Len(seq) - 1) : seq[k].date <= seq[k + 1].date

\* the lists of n rows in date order
RECURSIVE RowListsOfLen(_)
RowListsOfLen(n) ==
    IF n = 0 THEN {<<>>}
    ELSE UNION {{Append(seq, r) : r \in {x \in Rows : IsSortedByDate(Append(seq, x))}} :
                    seq \in RowListsOfLen(n - 1)}

RowLists == UNION {RowListsOfLen(n) : n \in 1..MaxTx}

FromRows(rows) ==
    [k \in 1..Len(rows) |->
        Transaction(rows[k].date, rows[k].type, rows[k].quantity, rows[k].total_value, k)]

\* what the files hold besides stock A: nothing; a stock whose rows are not
\* in date order; a stock with a lone sell in the tax year 2023-24
OtherStocks ==
    { <<>>,
      <<[name |-> "B", transactions |->
            <<Transaction(20240701, "sell", 1, 10, 1),
              Transaction(20230701, "buy", 2, 25, 2)>>]>>,
      <<[name |-> "B", transactions |->
            <<Transaction(20230701, "sell", 1, 10, 1)>>]>> }

\* the scenario of the specification: stock X, FIFO with the 12-month rule
ScenarioData ==
    <<[name |-> "X", transactions |->
        <<Transaction(20230115, "buy", 100, 100000, 1),
          Transaction(20240115, "buy", 100, 120000, 2),
          Transaction(20240820, "sell", 150, 300000, 3)>>]>>

\* a ledger on which the halved key decides the order: the buy of 2023 is the
\* cheaper one and is held for a year when the sell comes
DiscountData ==
    <<[name |-> "M", transactions |->
        <<Transaction(20230701, "buy", 2, 10, 1),
          Transaction(20240630, "buy", 1, 8, 2),
          Transaction(20240701, "sell", 2, 25, 3)>>]>>

\* a ledger with a sell of the tax year before the latest: two buys at 5.00
\* and 10.00, a sell on 30/06/2024 and a sell on 01/07/2024
WindowData ==
    <<[name |-> "W", transactions |->
        <<Transaction(20230701, "buy", 1, 500, 1),
          Transaction(20230701, "buy", 1, 1000, 2),
          Transaction(20240630, "sell", 1, 1200, 3),
          Transaction(20240701, "sell", 1, 1200, 4)>>]>>

NoSell == [date |-> NoDate, type |-> "none", quantity |-> 0, total_value |-> 0,
           remaining_shares |-> 0, id |-> 0]

Init ==
    /\ pc = "sort"
    /\ \/ /\ data \in {<<[name |-> "A", transactions |-> FromRows(rows)]>> \o other :
                            rows \in RowLists, other \in OtherStocks}
          /\ minimize_capital_gains \in BOOLEAN
          /\ apply_twelve_month_rule \in BOOLEAN
       \/ /\ data = ScenarioData
          /\ minimize_capital_gains = FALSE
          /\ apply_twelve_month_rule = TRUE
       \/ /\ data \in {DiscountData, WindowData}
          /\ minimize_capital_gains \in BOOLEAN
          /\ apply_twelve_month_rule \in BOOLEAN
    /\ start_date = NoDate
    /\ end_date = NoDate
    /\ filtered_data = <<>>
    /\ stock_pos = 0
    /\ i = 0
    /\ j = 0
    /\ sell_transaction = NoSell
    /\ remaining_to_sell = 0
    /\ gains_by_stock_twelve_month_split = EmptyDict
    /\ transaction_records = <<>>
    /\ total_capital_gain = 0
    /\ current_holdings = EmptyDict
    /\ report = <<>>
    /\ messages = <<>>

----------------------------------------------------------------------------
(* calculate(), step by step *)

\* line 411
SortData ==
    /\ pc = "sort"
    /\ data' = sort_dict_ascending_by_date(data)
    /\ pc' = "resolve"
    /\ UNCHANGED <<minimize_capital_gains, apply_twelve_month_rule, start_date,
                   end_date, filtered_data, stock_pos, i, j, sell_transaction,
                   remaining_to_sell, gains_by_stock_twelve_month_split,
                   transaction_records, total_capital_gain, current_holdings,
                   report, messages>>

\* lines 414-417
ResolveTaxYear ==
    /\ pc = "resolve"
    /\ LET window == calculate_latest_tax_year(data)
       IN  /\ start_date' = window[1]
           /\ end_date' = window[2]
           /\ IF window[1] = NoDate
              THEN /\ messages' = Append(messages, [kind |-> "no_valid_dates"])
                   /\ pc' = "done"
              ELSE /\ messages' = messages
                   /\ pc' = "filter"
    /\ UNCHANGED <<minimize_capital_gains, apply_twelve_month_rule, data,
                   filtered_data, stock_pos, i, j, sell_transaction,
                   remaining_to_sell, gains_by_stock_twelve_month_split,
                   transaction_records, total_capital_gain, current_holdings,
                   report>>

\* lines 420-423 and 430-431
FilterData ==
    /\ pc = "filter"
    /\ filtered_data' = filter_for_latest_tax_year(data, start_date, end_date)
    /\ IF filtered_data' # <<>>
       THEN /\ pc' = "stock"
            /\ messages' = messages
       ELSE /\ pc' = "done"
            /\ messages' = Append(messages, [kind |-> "no_capital_gains"])
    /\ UNCHANGED <<minimize_capital_gains, apply_twelve_month_rule, data, start_date,
                   end_date, stock_pos, i, j, sell_transaction, remaining_to_sell,
                   gains_by_stock_twelve_month_split, transaction_records,
                   total_capital_gain, current_holdings, report>>

\* the list calculate_capital_gains is working on, and its key
Transactions == filtered_data[stock_pos].transactions
StockName == filtered_data[stock_pos].name

\* lines 186-188: the next stock of the for loop; line 300 after the last
ForStock ==
    /\ pc = "stock"
    /\ IF stock_pos < Len(filtered_data)
       THEN /\ stock_pos' = stock_pos + 1
            /\ gains_by_stock_twelve_month_split' =
                  [n \in DOMAIN gains_by_stock_twelve_month_split
                            \cup {filtered_data[stock_pos + 1].name} |->
                      IF n = filtered_data[stock_pos + 1].name
                      THEN [twelve_months |-> 0, under_twelve_months |-> 0]
                      ELSE gains_by_stock_twelve_month_split[n]]
            /\ i' = 0
            /\ pc' = "scan"
       ELSE /\ pc' = "total"
            /\ UNCHANGED <<stock_pos, gains_by_stock_twelve_month_split, i>>
    /\ UNCHANGED <<minimize_capital_gains, apply_twelve_month_rule, data, start_date,
                   end_date, filtered_data, j, sell_transaction, remaining_to_sell,
                   transaction_records, total_capital_gain, current_holdings,
                   report, messages>>

\* lines 190-193: a transaction that is no sell is stepped over
SkipBuy ==
    /\ pc = "scan"
    /\ i < Len(Transactions)
    /\ At(Transactions, i).type # "sell"
    /\ i' = i + 1
    /\ UNCHANGED <<pc, minimize_capital_gains, apply_twelve_month_rule, data,
                   start_date, end_date, filtered_data, stock_pos, j,
                   sell_transaction, remaining_to_sell,
                   gains_by_stock_twelve_month_split, transaction_records,
                   total_capital_gain, current_holdings, report, messages>>

\* lines 195-210: a sell is taken up, the transactions before it re-sorted
BeginSell ==
    /\ pc = "scan"
    /\ i < Len(Transactions)
    /\ At(Transactions, i).type = "sell"
    /\ sell_transaction' = At(Transactions, i)
    /\ remaining_to_sell' = At(Transactions, i).remaining_shares
    /\ filtered_data' =
          [filtered_data EXCEPT ![stock_pos].transactions =
              Reorder(@, i, At(Transactions, i), apply_twelve_month_rule,
                      minimize_capital_gains)]
    /\ transaction_records' =
          IF Recorded(At(Transactions, i), start_date)
          THEN Append(transaction_records,
                      SoldEntry(StockName, At(Transactions, i).remaining_shares,
                                At(Transactions, i)))
          ELSE transaction_records
    /\ j' = 0
    /\ pc' = "match"
    /\ UNCHANGED <<minimize_capital_gains, apply_twelve_month_rule, data, start_date,
                   end_date, stock_pos, i, gains_by_stock_twelve_month_split,
                   total_capital_gain, current_holdings, report, messages>>

\* line 190: the while loop over the list ends
EndOfList ==
    /\ pc = "scan"
    /\ i >= Len(Transactions)
    /\ pc' = "stock"
    /\ UNCHANGED <<minimize_capital_gains, apply_twelve_month_rule, data, start_date,
                   end_date, filtered_data, stock_pos, i, j, sell_transaction,
                   remaining_to_sell, gains_by_stock_twelve_month_split,
                   transaction_records, total_capital_gain, current_holdings,
                   report, messages>>

\* lines 211-294: one iteration of the inner while loop
MatchStep ==
    /\ pc = "match"
    /\ j < i /\ remaining_to_sell > 0
    /\ LET r == MatchIteration(Transactions, i, j, remaining_to_sell,
                               sell_transaction, start_date, StockName)
       IN  /\ filtered_data' = [filtered_data EXCEPT ![stock_pos].transactions =
                                    r.transactions]
           /\ data' = [data EXCEPT ![Lookup(data, StockName)].transactions =
                           SharedWrite(@, r.written)]
           /\ i' = r.i
           /\ j' = r.j
           /\ remaining_to_sell' = r.remaining_to_sell
           /\ transaction_records' = transaction_records \o r.entries
           /\ gains_by_stock_twelve_month_split' =
                 [gains_by_stock_twelve_month_split EXCEPT
                     ![StockName] = AddGains(@, r.entries)]
    /\ UNCHANGED <<pc, minimize_capital_gains, apply_twelve_month_rule, start_date,
                   end_date, stock_pos, sell_transaction, total_capital_gain,
                   current_holdings, report, messages>>

\* line 296 not taken: the sell is matched, the outer loop goes on
EndSell ==
    /\ pc = "match"
    /\ ~(j < i /\ remaining_to_sell > 0)
    /\ remaining_to_sell <= 0
    /\ pc' = "scan"
    /\ UNCHANGED <<minimize_capital_gains, apply_twelve_month_rule, data, start_date,
                   end_date, filtered_data, stock_pos, i, j, sell_transaction,
                   remaining_to_sell, gains_by_stock_twelve_month_split,
                   transaction_records, total_capital_gain, current_holdings,
                   report, messages>>

\* lines 296-298: more sold than owned; calculate() goes on with ({}, "")
Oversell ==
    /\ pc = "match"
    /\ ~(j < i /\ remaining_to_sell > 0)
    /\ remaining_to_sell > 0
    /\ messages' = Append(messages, [kind |-> "oversold", stock |-> StockName,
                                     remaining |-> remaining_to_sell])
    /\ gains_by_stock_twelve_month_split' = EmptyDict
    /\ transaction_records' = <<>>
    /\ pc' = "total"
    /\ UNCHANGED <<minimize_capital_gains, apply_twelve_month_rule, data, start_date,
                   end_date, filtered_data, stock_pos, i, j, sell_transaction,
                   remaining_to_sell, total_capital_gain, current_holdings, report>>

\* line 425
TotalGains ==
    /\ pc = "total"
    /\ total_capital_gain' =
          calculate_total_capital_gains(gains_by_stock_twelve_month_split,
                                        apply_twelve_month_rule)
    /\ pc' = "holdings"
    /\ UNCHANGED <<minimize_capital_gains, apply_twelve_month_rule, data, start_date,
                   end_date, filtered_data, stock_pos, i, j, sell_transaction,
                   remaining_to_sell, gains_by_stock_twelve_month_split,
                   transaction_records, current_holdings, report, messages>>

\* line 426
CurrentHoldings ==
    /\ pc = "holdings"
    /\ current_holdings' = shares_you_still_own(filtered_data)
    /\ pc' = "print"
    /\ UNCHANGED <<minimize_capital_gains, apply_twelve_month_rule, data, start_date,
                   end_date, filtered_data, stock_pos, i, j, sell_transaction,
                   remaining_to_sell, gains_by_stock_twelve_month_split,
                   transaction_records, total_capital_gain, report, messages>>

\* line 429: print_results writes the summary and the CSV
PrintResults ==
    /\ pc = "print"
    /\ report' = <<[gains_by_stock_total |->
                        combined_gains_per_stock(gains_by_stock_twelve_month_split),
                    total_gains |-> total_capital_gain,
                    current_portfolio |-> current_holdings,
                    transactions |-> transaction_records,
                    start_date |-> start_date, end_date |-> end_date,
                    twelve_month_rule |-> apply_twelve_month_rule]>>
    /\ messages' = Append(messages, [kind |-> "exported"])
    /\ pc' = "done"
    /\ UNCHANGED <<minimize_capital_gains, apply_twelve_month_rule, data, start_date,
                   end_date, filtered_data, stock_pos, i, j, sell_transaction,
                   remaining_to_sell, gains_by_stock_twelve_month_split,
                   transaction_records, total_capital_gain, current_holdings>>

Next ==
    \/ SortData
    \/ ResolveTaxYear
    \/ FilterData
    \/ ForStock
    \/ SkipBuy
    \/ BeginSell
    \/ EndOfList
    \/ MatchStep
    \/ EndSell
    \/ Oversell
    \/ TotalGains
    \/ CurrentHoldings
    \/ PrintResults

Spec == Init /\ [][Next]_vars

----------------------------------------------------------------------------
(* Quantities the properties below speak of *)

RECURSIVE QuantityOf(_, _)
QuantityOf(transactions, type) ==
    IF transactions = <<>> THEN 0
    ELSE (IF Head(transactions).type = type THEN Head(transactions).quantity ELSE 0)
         + QuantityOf(Tail(transactions), type)

\* data keeps every transaction of a stock with its original quantity
OriginalOf(name) == TransactionsOf(data, name)

Oversold == \E m \in 1..Len(messages) : messages[m].kind = "oversold"

Matching == pc \in {"stock", "scan", "match"}

\* the shares of the sells of filtered_data[k] matched so far: the sells that
\* were removed, and the matched part of the sell that is being matched
MatchedSoFar(k) ==
    QuantityOf(OriginalOf(filtered_data[k].name), "sell")
        - QuantityOf(filtered_data[k].transactions, "sell")
        + (IF k = stock_pos /\ remaining_to_sell > 0
           THEN sell_transaction.quantity - remaining_to_sell ELSE 0)

----------------------------------------------------------------------------
(* C1: conservation *)

\* C1 as stated: during matching, for every stock of the ledger, the
\* quantities of its buys add up to the quantities of all of its sells plus
\* the remaining_shares of the buys still in the ledger.
C1_ConservationAtAllTimes ==
    Matching =>
        \A k \in 1..Len(filtered_data) :
            QuantityOf(OriginalOf(filtered_data[k].name), "buy")
                = QuantityOf(OriginalOf(filtered_data[k].name), "sell")
                    + RemainingOfBuys(filtered_data[k].transactions)

\* C1 amended: from the filter on, for every stock of the filtered ledger,
\* the quantities of its buys add up to the shares of its sells matched so
\* far plus the remaining_shares of the buys still in the ledger; when the
\* run ends without oversell every sell is matched in full and the holdings
\* reported are the buys minus all the sells.
C1_Conservation ==
    /\ \A k \in 1..Len(filtered_data) :
            QuantityOf(OriginalOf(filtered_data[k].name), "buy")
                = MatchedSoFar(k) + RemainingOfBuys(filtered_data[k].transactions)
    /\ (pc = "done" /\ report # <<>> /\ ~Oversold) =>
            \A k \in 1..Len(filtered_data) :
                /\ QuantityOf(filtered_data[k].transactions, "sell") = 0
                /\ QuantityOf(OriginalOf(filtered_data[k].name), "buy")
                      = QuantityOf(OriginalOf(filtered_data[k].name), "sell")
                          + report[1].current_portfolio[filtered_data[k].name]

\* a sell is matched in part: one buy was removed for it, more is needed
C1_Witness ==
    /\ pc = "match"
    /\ 0 < remaining_to_sell
    /\ remaining_to_sell < sell_transaction.quantity
    /\ j < i

----------------------------------------------------------------------------
(* C2: no report after an oversell *)

\* C2: once calculate_capital_gains has reported an oversell, print_results
\* is not reached: no summary and no CSV is written.
C2_NoReportAfterOversell == Oversold => (pc # "print" /\ report = <<>>)

----------------------------------------------------------------------------
(* C3: overselling detection *)

\* C3 as stated: when some stock of the input ledger has sold more than it
\* bought, the run ends in the oversell outcome.
C3_OversellDetected ==
    (pc = "done" /\ \E k \in 1..Len(data) :
            QuantityOf(data[k].transactions, "sell")
                > QuantityOf(data[k].transactions, "buy"))
        => Oversold

\* C3 amended: when some stock that passes the relevance filter has sold more
\* than it bought, calculate_capital_gains reports an oversell with a stock
\* of the filtered ledger and a positive residual, and returns ({}, "").
C3_OversellDetectedWhenRelevant ==
    (/\ pc \in {"total", "holdings", "print", "done"}
     /\ \E k \in 1..Len(filtered_data) :
            QuantityOf(OriginalOf(filtered_data[k].name), "sell")
                > QuantityOf(OriginalOf(filtered_data[k].name), "buy"))
        => /\ Oversold
           /\ gains_by_stock_twelve_month_split = EmptyDict
           /\ transaction_records = <<>>
           /\ \A m \in 1..Len(messages) :
                 messages[m].kind = "oversold" =>
                    /\ messages[m].stock \in Names(filtered_data)
                    /\ messages[m].remaining > 0

\* an oversold stock whose first sell was matched before the oversell
C3_Witness ==
    /\ pc = "total"
    /\ Oversold
    /\ \E k \in 1..Len(filtered_data) :
          /\ QuantityOf(OriginalOf(filtered_data[k].name), "sell")
                > QuantityOf(OriginalOf(filtered_data[k].name), "buy")
          /\ QuantityOf(OriginalOf(filtered_data[k].name), "buy") > 0

----------------------------------------------------------------------------
(* C4: bounds of remaining_shares and remaining_to_sell *)

AllLists == {data[k].transactions : k \in 1..Len(data)}
                \cup {filtered_data[k].transactions : k \in 1..Len(filtered_data)}

RemainingInBounds ==
    /\ \A transactions \in AllLists : \A m \in 1..Len(transactions) :
          transactions[m].type = "buy" =>
             /\ 0 <= transactions[m].remaining_shares
             /\ transactions[m].remaining_shares <= transactions[m].quantity
    /\ remaining_to_sell >= 0
    /\ pc \in {"sort", "resolve", "filter"} =>
          \A transactions \in AllLists : \A m \in 1..Len(transactions) :
             transactions[m].remaining_shares = transactions[m].quantity

\* the remaining_shares of the buy with this id in the list, -1 when absent
RemainingOfId(transactions, id) ==
    IF \E m \in 1..Len(transactions) :
            transactions[m].id = id /\ transactions[m].type = "buy"
    THEN transactions[CHOOSE m \in 1..Len(transactions) :
                          transactions[m].id = id].remaining_shares
    ELSE 0 - 1

RemainingNeverIncreases ==
    /\ \A k \in 1..Len(data) : \A m \in 1..Len(data[k].transactions) :
          data[k].transactions[m].type = "buy" =>
             RemainingOfId(data'[k].transactions, data[k].transactions[m].id)
                <= data[k].transactions[m].remaining_shares
    /\ (Matching /\ stock_pos > 0) =>
          \A k \in 1..Len(filtered_data) : \A m \in 1..Len(filtered_data[k].transactions) :
             filtered_data[k].transactions[m].type = "buy" =>
                RemainingOfId(filtered_data'[k].transactions,
                              filtered_data[k].transactions[m].id)
                   <= filtered_data[k].transactions[m].remaining_shares

\* C4: every buy has 0 <= remaining_shares <= quantity at every point,
\* remaining_shares is the quantity before matching starts and no step
\* raises it; remaining_to_sell is never negative.
C4_RemainingBounds == []RemainingInBounds /\ [][RemainingNeverIncreases]_vars

\* a buy that was shrunk while another sell is being matched against it
C4_Witness ==
    /\ pc = "match"
    /\ j < i
    /\ remaining_to_sell > 0
    /\ At(Transactions, j).type = "buy"
    /\ 0 < At(Transactions, j).remaining_shares
    /\ At(Transactions, j).remaining_shares < At(Transactions, j).quantity

----------------------------------------------------------------------------
(* C5: window membership *)

InWindow(d) == start_date <= d /\ d <= end_date

\* the inner loop is at a buy it will consume
Consuming ==
    /\ pc = "match"
    /\ j < i /\ remaining_to_sell > 0
    /\ At(Transactions, j).type = "buy"
    /\ At(Transactions, j).remaining_shares > 0

MatchedShares ==
    IF At(Transactions, j).remaining_shares < remaining_to_sell
    THEN At(Transactions, j).remaining_shares ELSE remaining_to_sell

TotalOf(split) == split.twelve_months + split.under_twelve_months

WindowMembershipStep ==
    (Consuming /\ pc' = "match") =>
        LET name == StockName
            before == gains_by_stock_twelve_month_split[name]
            after == gains_by_stock_twelve_month_split'[name]
            in_window == MatchIteration(Transactions, i, j, remaining_to_sell,
                                        sell_transaction, sell_transaction.date, name)
        IN  \* the lots are consumed as for a sell inside the window
            /\ filtered_data'[stock_pos].transactions = in_window.transactions
            /\ remaining_to_sell' = in_window.remaining_to_sell
            /\ RemainingOfBuys(filtered_data'[stock_pos].transactions)
                  = RemainingOfBuys(Transactions) - MatchedShares
            /\ remaining_to_sell' = remaining_to_sell - MatchedShares
            \* the match is recorded and added exactly inside the window
            /\ IF InWindow(sell_transaction.date)
               THEN /\ Len(transaction_records') = Len(transaction_records) + 1
                    /\ transaction_records'[Len(transaction_records')].kind = "matched"
                    /\ transaction_records'[Len(transaction_records')].shares = MatchedShares
                    /\ TotalOf(after) = TotalOf(before)
                          + transaction_records'[Len(transaction_records')].capital_gain
               ELSE /\ transaction_records' = transaction_records
                    /\ after = before

\* C5: the gain of a match is recorded and added to the totals of the stock
\* exactly when the date of the sell lies in [start_date, end_date]; whether
\* or not it does, the buys are removed or shrunk in the same way.
C5_WindowMembership == [][WindowMembershipStep]_vars

\* the report of a stock with a sell on start_date, which was recorded, and a
\* sell on the day before, which was matched against a buy and not recorded
C5_Witness ==
    /\ pc = "done" /\ report # <<>> /\ ~Oversold
    /\ \E m \in 1..Len(transaction_records) :
          /\ transaction_records[m].kind = "matched"
          /\ transaction_records[m].sell.date = start_date
          /\ \E t \in 1..Len(OriginalOf(transaction_records[m].stock)) :
                LET early == OriginalOf(transaction_records[m].stock)[t]
                IN  /\ early.type = "sell"
                    /\ early.date = MakeDate(Year(start_date), 6, 30)
                    /\ \A n \in 1..Len(transaction_records) :
                          transaction_records[n].sell.id # early.id

----------------------------------------------------------------------------
(* C6: the three strategies on a sell with a single surviving buy *)

\* the outer loop is at a sell
AtSell ==
    /\ pc = "scan"
    /\ i < Len(Transactions)
    /\ At(Transactions, i).type = "sell"

SurvivingBuysBefore ==
    {m \in 0..(i - 1) : /\ At(Transactions, m).type = "buy"
                        /\ At(Transactions, m).remaining_shares > 0}

\* the gains the sell at i records when the strategy is (rule, minimize)
GainsUnder(rule, minimize) ==
    LET sell == At(Transactions, i)
        entries == MatchLoop(Reorder(Transactions, i, sell, rule, minimize), i, 0,
                             sell.remaining_shares, sell, start_date, StockName)
    IN  [m \in 1..Len(entries) |-> entries[m].capital_gain]

\* C6: when exactly one surviving buy precedes a sell, the gain recorded for
\* the sell is the same under FIFO, under minimize-gain without the 12-month
\* rule and under minimize-gain with it.
C6_SingleLotEquivalence ==
    (AtSell /\ Cardinality(SurvivingBuysBefore) = 1) =>
        /\ GainsUnder(FALSE, TRUE) = GainsUnder(FALSE, FALSE)
        /\ GainsUnder(TRUE, TRUE) = GainsUnder(TRUE, FALSE)
        /\ GainsUnder(TRUE, FALSE) = GainsUnder(FALSE, FALSE)

\* a minimize-gain run at a sell inside the window that has one surviving buy
\* before it, bought at a lower price per unit than the sell's
C6_Witness ==
    /\ AtSell
    /\ Cardinality(SurvivingBuysBefore) = 1
    /\ minimize_capital_gains
    /\ Recorded(At(Transactions, i), start_date)
    /\ Len(GainsUnder(FALSE, FALSE)) = 1
    /\ GainsUnder(FALSE, FALSE)[1] > 0

----------------------------------------------------------------------------
(* C7: rounding direction *)

RoundedAgainstTaxpayer(e) ==
    LET true_cost_num == e.shares * e.buy.total_value        \* over e.buy.quantity
        true_proceeds_num == e.shares * e.sell.total_value   \* over e.sell.quantity
    IN  \* purchase cost: the floor of the true cost
        /\ e.partial_purchase_price * e.buy.quantity <= true_cost_num
        /\ true_cost_num < (e.partial_purchase_price + 1) * e.buy.quantity
        \* sale proceeds: the ceiling of the true proceeds
        /\ e.partial_sell_price * e.sell.quantity >= true_proceeds_num
        /\ true_proceeds_num > (e.partial_sell_price - 1) * e.sell.quantity
        \* gain >= true proceeds - true cost
        /\ e.capital_gain * e.buy.quantity * e.sell.quantity
              >= e.shares * (e.sell.total_value * e.buy.quantity
                                - e.buy.total_value * e.sell.quantity)

\* C7: for every recorded match the purchase cost is the true cost rounded
\* down to the cent, the sale proceeds the true proceeds rounded up, and the
\* gain is at least the true gain, whichever branch recorded the match.
C7_RoundingDirection ==
    \A m \in 1..Len(transaction_records) :
        transaction_records[m].kind = "matched" =>
            RoundedAgainstTaxpayer(transaction_records[m])

\* a sell recorded in two matches, the first of a buy consumed in full, the
\* second of a part of a buy, both amounts of the second truly rounded
C7_Witness ==
    \E m \in 2..Len(transaction_records) :
        LET first == transaction_records[m - 1]
            second == transaction_records[m]
        IN  /\ first.kind = "matched" /\ second.kind = "matched"
            /\ first.sell.id = second.sell.id /\ first.stock = second.stock
            /\ first.shares = first.buy.remaining_shares
            /\ second.shares < second.buy.remaining_shares
            /\ second.partial_purchase_price * second.buy.quantity
                  < second.shares * second.buy.total_value
            /\ second.partial_sell_price * second.sell.quantity
                  > second.shares * second.sell.total_value

----------------------------------------------------------------------------
(* C8: the tax year resolver *)

SellDatesOf(transactions) ==
    {transactions[m].date : m \in {n \in 1..Len(transactions) :
                                      transactions[n].type = "sell"}}

SellDates == UNION {SellDatesOf(data[k].transactions) : k \in 1..Len(data)}

Latest(dates) == CHOOSE d \in dates : \A e \in dates : e <= d

\* C8: on the sorted ledger, when there is a sell the window starts on a
\* 1 July and ends on the 30 June of the next year and holds the latest sell
\* date of all stocks (month >= 7: 1 July of that year, else of the year
\* before); when there is none, the window is (None, None) and calculate()
\* stops without a report.
C8_TaxYearResolver ==
    pc \notin {"sort", "resolve"} =>
        IF SellDates = {}
        THEN /\ start_date = NoDate /\ end_date = NoDate
             /\ pc = "done" /\ report = <<>> /\ filtered_data = <<>>
        ELSE LET latest_sell_date == Latest(SellDates)
             IN  /\ start_date = MakeDate(IF Month(latest_sell_date) >= 7
                                          THEN Year(latest_sell_date)
                                          ELSE Year(latest_sell_date) - 1, 7, 1)
                 /\ end_date = MakeDate(Year(start_date) + 1, 6, 30)
                 /\ start_date <= latest_sell_date
                 /\ latest_sell_date <= end_date

\* two stocks with sells, the latest sell of all on a 1 July and not in the
\* first stock, and a sell of an earlier tax year
C8_Witness ==
    /\ pc = "filter"
    /\ Len(data) = 2
    /\ Latest(SellDates) = start_date
    /\ \A m \in 1..Len(data[1].transactions) :
          data[1].transactions[m].type = "sell" =>
             data[1].transactions[m].date < start_date
    /\ \E m \in 1..Len(data[1].transactions) : data[1].transactions[m].type = "sell"

----------------------------------------------------------------------------
(* C9: the relevance filter *)

\* the stock has a sell, and the sell after which it has no other is dated
\* inside the window
MostRecentSellInWindow(transactions) ==
    \E m \in 1..Len(transactions) :
        /\ transactions[m].type = "sell"
        /\ \A n \in (m + 1)..Len(transactions) : transactions[n].type # "sell"
        /\ start_date <= transactions[m].date
        /\ transactions[m].date <= end_date

FilterJustRan ==
    \/ pc = "stock" /\ stock_pos = 0
    \/ pc = "done" /\ start_date # NoDate /\ report = <<>>

\* C9: the filtered ledger holds exactly the stocks whose most recent sell is
\* dated inside the window, each with the transaction list it has in the
\* input ledger, in the order of the input ledger.
C9_RelevanceFilter ==
    FilterJustRan =>
        /\ Names(filtered_data)
              = {data[k].name : k \in {n \in 1..Len(data) :
                                          MostRecentSellInWindow(data[n].transactions)}}
        /\ \A k \in 1..Len(filtered_data) :
              filtered_data[k] = data[Lookup(data, filtered_data[k].name)]
        /\ \A k \in 1..(Len(filtered_data) - 1) :
              Lookup(data, filtered_data[k].name) < Lookup(data, filtered_data[k + 1].name)

\* the filter kept the second of two stocks that both have a sell, and
\* dropped the first, whose most recent sell is before the window
C9_Witness ==
    /\ pc = "stock" /\ stock_pos = 0
    /\ Len(data) = 2 /\ Len(filtered_data) = 1
    /\ filtered_data[1].name = data[2].name
    /\ Len(data[2].transactions) > 1
    /\ \E m \in 1..Len(data[1].transactions) : data[1].transactions[m].type = "sell"

----------------------------------------------------------------------------
(* C10: the scenario of stock X *)

IsScenario == Names(data) = {"X"}

\* C10: FIFO with the 12-month rule on stock X (buy 100 on 15/01/2023 for
\* 1000.00, buy 100 on 15/01/2024 for 1200.00, sell 150 on 20/08/2024 for
\* 3000.00) records 100 shares of the 2023 buy (cost 1000.00, proceeds
\* 2000.00, gain 1000.00, 12 months or more) and 50 shares of the 2024 buy
\* (cost 600.00, proceeds 1000.00, gain 400.00, under 12 months); the grand
\* total is 900.00 and 50 shares of the 2024 buy stay in the ledger.
C10_Scenario ==
    (IsScenario /\ pc = "done") =>
        /\ ~Oversold
        /\ Len(report) = 1
        /\ Len(report[1].transactions) = 3
        /\ LET first == report[1].transactions[2]
               second == report[1].transactions[3]
           IN  /\ first.kind = "matched" /\ second.kind = "matched"
               /\ first.shares = 100 /\ first.buy.date = 20230115
               /\ first.partial_purchase_price = 100000
               /\ first.partial_sell_price = 200000
               /\ first.capital_gain = 100000
               /\ first.twelve_months_or_more
               /\ second.shares = 50 /\ second.buy.date = 20240115
               /\ second.partial_purchase_price = 60000
               /\ second.partial_sell_price = 100000
               /\ second.capital_gain = 40000
               /\ ~second.twelve_months_or_more
        /\ gains_by_stock_twelve_month_split["X"]
              = [twelve_months |-> 100000, under_twelve_months |-> 40000]
        /\ report[1].total_gains = 2 * 90000
        /\ report[1].current_portfolio["X"] = 50
        /\ Len(filtered_data[1].transactions) = 1
        /\ filtered_data[1].transactions[1].date = 20240115
        /\ filtered_data[1].transactions[1].remaining_shares = 50

\* the run on stock X has written its report
C10_Witness == IsScenario /\ pc = "done" /\ report # <<>>

----------------------------------------------------------------------------
(* C11: FIFO order *)

\* the position in the list of the transaction with this id
PositionIn(transactions, id) ==
    CHOOSE m \in 1..Len(transactions) : transactions[m].id = id

SurvivingBuys(transactions) ==
    {m \in 1..Len(transactions) : /\ transactions[m].type = "buy"
                                  /\ transactions[m].remaining_shares > 0}

\* the surviving buys of the list stand in the order of the sorted input
\* ledger, which is the order of their dates
InLedgerOrder(transactions, original) ==
    \A m, n \in SurvivingBuys(transactions) :
        m < n => /\ PositionIn(original, transactions[m].id)
                        < PositionIn(original, transactions[n].id)
                 /\ transactions[m].date <= transactions[n].date

\* a surviving buy that was consumed in part is the first surviving buy
PartialLotIsEarliest(transactions) ==
    \A m \in SurvivingBuys(transactions) :
        transactions[m].remaining_shares < transactions[m].quantity =>
            \A n \in SurvivingBuys(transactions) : m <= n

FIFOLedger ==
    ~minimize_capital_gains =>
        \A k \in 1..Len(filtered_data) :
            /\ InLedgerOrder(filtered_data[k].transactions,
                             OriginalOf(filtered_data[k].name))
            /\ PartialLotIsEarliest(filtered_data[k].transactions)

\* the ids of the buys this step takes shares from: removed or shrunk
ConsumedIds ==
    {Transactions[m].id : m \in {n \in SurvivingBuys(Transactions) :
        RemainingOfId(filtered_data'[stock_pos].transactions, Transactions[n].id)
            < Transactions[n].remaining_shares}}

\* a step of the inner loop takes shares only from the buy that is, of the
\* surviving buys before the sell, the first of the sorted input ledger
FIFOStep ==
    (~minimize_capital_gains /\ pc = "match" /\ pc' = "match") =>
        \A id \in ConsumedIds :
            \A n \in SurvivingBuys(Transactions) :
                n <= i =>
                    /\ PositionIn(OriginalOf(StockName), id)
                          <= PositionIn(OriginalOf(StockName), Transactions[n].id)
                    /\ Transactions[PositionIn(Transactions, id)].date
                          <= Transactions[n].date

\* C11: under FIFO the buys are consumed in the order of the sorted ledger:
\* at every point at most one surviving buy of a stock has
\* remaining_shares < quantity and it is the earliest surviving buy, and a
\* sell never takes shares from a buy while a buy that stands earlier in the
\* ledger, before the sell, has remaining shares.
C11_FIFOOrder == []FIFOLedger /\ [][FIFOStep]_vars

\* FIFO, between two sells: the first buy was consumed in part and a buy at a
\* higher price per unit, which minimize-gain would have taken first, is whole
C11_Witness ==
    /\ ~minimize_capital_gains
    /\ pc = "scan"
    /\ \E m, n \in SurvivingBuys(Transactions) :
          /\ m < n
          /\ Transactions[m].remaining_shares < Transactions[m].quantity
          /\ Transactions[n].remaining_shares = Transactions[n].quantity
          /\ SortsBefore(Transactions[n], Transactions[m], NoSell, FALSE)

----------------------------------------------------------------------------
(* C12: the order in which minimize-gain consumes the buys *)

UnitPriceHigher(a, b) == a.total_value * b.quantity > b.total_value * a.quantity

\* the effective gain of t is raw / 2 when t was held for a year or more and
\* raw > 0, else raw, with raw the unit price of the sell less that of t
Halved(t, sell) ==
    /\ RelativeDeltaYears(sell.date, t.date) >= 1
    /\ UnitPriceHigher(sell, t)

EffectiveGainSmaller(a, b, sell) ==
    RawGain(a, sell) * b.quantity * (IF Halved(b, sell) THEN 2 ELSE 1)
        < RawGain(b, sell) * a.quantity * (IF Halved(a, sell) THEN 2 ELSE 1)

\* a stands strictly ahead of b in the order of the strategy
RanksAhead(a, b, sell) ==
    IF apply_twelve_month_rule
    THEN EffectiveGainSmaller(a, b, sell)
    ELSE UnitPriceHigher(a, b)

\* lines 198-205, seen from outside: the entries before the sell are the same
\* entries in the order of the strategy, the sell and what follows it stay
ReorderStep ==
    (minimize_capital_gains /\ AtSell /\ pc' = "match") =>
        LET old == Transactions
            new == filtered_data'[stock_pos].transactions
        IN  /\ i' = i /\ j' = 0
            /\ Len(new) = Len(old)
            /\ \A m \in (i + 1)..Len(old) : new[m] = old[m]
            /\ sell_transaction' = new[i + 1]
            /\ {new[m] : m \in 1..i} = {old[m] : m \in 1..i}
            /\ \A m, n \in 1..i : m < n => ~RanksAhead(new[n], new[m], new[i + 1])

\* a step of the inner loop takes shares only from a buy that no surviving
\* buy before the sell is ranked ahead of
MinimizeStep ==
    (minimize_capital_gains /\ pc = "match" /\ pc' = "match") =>
        \A id \in ConsumedIds :
            \A n \in SurvivingBuys(Transactions) :
                n <= i => ~RanksAhead(Transactions[n],
                                      Transactions[PositionIn(Transactions, id)],
                                      sell_transaction)

\* C12: under minimize-gain the re-sort is applied before the matching of
\* each sell to the positions [0, i) before it and to no other, and a sell
\* takes shares from a buy only when no surviving buy before the sell has a
\* strictly higher price per unit (no 12-month rule) or a strictly smaller
\* effective gain (12-month rule).
C12_MinimizeOrder == [][ReorderStep]_vars /\ [][MinimizeStep]_vars

\* minimize-gain with the 12-month rule takes shares from a buy held for a
\* year while a buy at a higher price per unit, not halved, is waiting
C12_Witness ==
    /\ minimize_capital_gains /\ apply_twelve_month_rule
    /\ Consuming
    /\ Halved(At(Transactions, j), sell_transaction)
    /\ \E n \in SurvivingBuys(Transactions) :
          /\ n <= i
          /\ UnitPriceHigher(Transactions[n], At(Transactions, j))
          /\ ~Halved(Transactions[n], sell_transaction)
          /\ PositionIn(OriginalOf(StockName), Transactions[n].id)
                > PositionIn(OriginalOf(StockName), At(Transactions, j).id)

----------------------------------------------------------------------------
(* C13: minimize-gain against FIFO *)

\* the list of a stock as process_csv made it and the sort ordered it
AsRead(transactions) ==
    [k \in 1..Len(transactions) |->
        [transactions[k] EXCEPT !.remaining_shares = transactions[k].quantity]]

\* the grand total (half cents, no 12-month rule) that calculate() reports
\* for the first n stocks of the filtered ledger under the given strategy
RECURSIVE TotalWithoutRule(_, _)
TotalWithoutRule(n, minimize) ==
    IF n = 0 THEN 0
    ELSE TotalWithoutRule(n - 1, minimize)
            + 2 * GainOfList(AsRead(OriginalOf(filtered_data[n].name)), 0, start_date,
                             FALSE, minimize, filtered_data[n].name)

ReportedWithoutRule ==
    /\ pc = "done" /\ report # <<>>
    /\ ~Oversold
    /\ ~apply_twelve_month_rule

\* C13: on a ledger the run does not oversell, without the 12-month rule, the
\* grand total reported under minimize-gain is at most the grand total
\* reported under FIFO for the same ledger and window.
C13_MinimizeNeverMoreThanFIFO ==
    ReportedWithoutRule =>
        IF minimize_capital_gains
        THEN report[1].total_gains <= TotalWithoutRule(Len(filtered_data), FALSE)
        ELSE TotalWithoutRule(Len(filtered_data), TRUE) <= report[1].total_gains

----------------------------------------------------------------------------
(* C14: a resolved window always leaves a stock to report on *)

Resolved == pc \notin {"sort", "resolve"} /\ start_date # NoDate

HoldsLatestSell(name) == Latest(SellDates) \in SellDatesOf(OriginalOf(name))

\* C14: once calculate_latest_tax_year has returned a window for the sorted
\* ledger, every sell of every stock is dated on or before end_date, the
\* filter returns a ledger that holds a stock with the latest sell, and
\* calculate() never shows 'No Capital gains to report'.
C14_RelevantActivity ==
    /\ \A m \in 1..Len(messages) : messages[m].kind # "no_capital_gains"
    /\ Resolved =>
          /\ \A d \in SellDates : d <= end_date
          /\ LET filtered == IF pc = "filter"
                             THEN filter_for_latest_tax_year(data, start_date, end_date)
                             ELSE filtered_data
             IN  /\ filtered # <<>>
                 /\ \E k \in 1..Len(filtered) : HoldsLatestSell(filtered[k].name)

\* the filter has run on two stocks: the latest sell of all is on start_date
\* itself, and the stock whose last sell is on the day before was dropped
C14_Witness ==
    /\ pc = "stock" /\ stock_pos = 0
    /\ Len(data) = 2 /\ Len(filtered_data) = 1
    /\ Latest(SellDates) = start_date
    /\ \E k \in 1..2 :
          /\ data[k].name \notin Names(filtered_data)
          /\ MakeDate(Year(start_date), 6, 30) \in SellDatesOf(data[k].transactions)

====
